---- MODULE Spec2Model ----
(***************************************************************************)
(* Blob -> Staging -> MERGE -> Azure SQL load pipeline.                    *)
(*                                                                         *)
(* scripts/etl_load.py : main() and the helpers it calls, as processes     *)
(*                       that share one database (staging relations,       *)
(*                       final relations, Reject_Claim, ETL_Run).          *)
(* scripts/etl_utils.py: _split_single_column_csv as operators on strings. *)
(***************************************************************************)
EXTENDS Integers, Sequences, FiniteSets, TLC

\* ------------------------------------------------------------------ bounds
\* Number of invocations of main() (operating-system processes).
MaxProcs == 2
\* Largest number of data rows in a CSV blob.
MaxRows == 1
\* Largest number of staged claim keys sp_upsert_claim rejects in one call.
MaxReject == 1
\* Longest header string handed to _split_single_column_csv.
MaxStr == 3
\* Largest number of rows of a frame handed to _split_single_column_csv.
MaxSplitRows == 1

Procs == 1..MaxProcs

\* The three entities, named as the keys of stg_counts / final_counts.
Entities == {"provider", "patient", "claim"}

\* run_id before start_run() has returned; RunIDs start at 1.
NoRun == 0
\* The frames and count dictionaries before they are assigned.
None == [provider |-> -1, patient |-> -1, claim |-> -1]

VARIABLES
    \* ---- database (shared by every process)
    Stg,            \* Stg[e]: rows of dbo.StgProvider / StgPatient / StgClaim
    Final,          \* Final[e]: natural keys in dbo.Provider / Patient / Claim
    Reject_Claim,   \* rows <<RunID, loader, key>> of dbo.Reject_Claim
    ETL_Run,        \* sequence of run rows; RunID is the index
    \* ---- blob container
    blob,           \* blob[e]: number of data rows of the entity's CSV
    \* ---- one main() invocation per process
    pc,             \* position in main()
    run_id,         \* value returned by start_run()
    frames,         \* providers / patients / claims DataFrames (row counts)
    stg_counts,
    final_counts,
    reject_total,
    \* ---- call logs (what a stub of the callee would record)
    merge_calls,    \* per process: <<procedure, @RunID argument, completed>>
    finish_calls,   \* per process: <<status argument, completed>>
    staged,         \* per process: its staging steps that committed, in order
    overlap,        \* some main() started while another one was still running
    \* ---- _split_single_column_csv call
    df,             \* arguments: [columns, rows, expected_cols]
    split_pc,
    split_sep,      \* the delimiter chosen, "" when the frame is not repaired
    split_out       \* result: [status, columns, rows]; status "ValueError" when it raised

dbVars    == <<Stg, Final, Reject_Claim, ETL_Run, blob>>
procVars  == <<pc, run_id, frames, stg_counts, final_counts, reject_total>>
logVars   == <<merge_calls, finish_calls, staged, overlap>>
splitVars == <<df, split_pc, split_sep, split_out>>
vars      == <<dbVars, procVars, logVars, splitVars>>

\* main() with the provider and patient merges exchanged.
MainSteps_swapped ==
    << "start_run", "extract", "truncate_staging",
       "load_provider", "load_patient", "load_claim",
       "stg_counts", "merge_patient", "merge_provider", "merge_claim",
       "final_counts", "update_run_counts", "finish_run", "print" >>

\* main() with the provider merge moved before the last two staging loads.
MainSteps_merge_early ==
    << "start_run", "extract", "truncate_staging",
       "load_provider", "merge_provider", "load_patient", "load_claim",
       "stg_counts", "merge_patient", "merge_claim",
       "final_counts", "update_run_counts", "finish_run", "print" >>

\* ------------------------------------------------------- main(): the steps
\* The statements of main() in program order.  start_run() is outside the
\* try block; every later step is inside it.
MainSteps ==
    << "start_run", "extract", "truncate_staging",
       "load_provider", "load_patient", "load_claim",
       "stg_counts", "merge_provider", "merge_patient", "merge_claim",
       "final_counts", "update_run_counts", "finish_run", "print" >>

StepIndex(s) == CHOOSE i \in 1..Len(MainSteps) : MainSteps[i] = s

\* The statement that follows s when s returns normally.
NextStep(s) ==
    IF StepIndex(s) = Len(MainSteps) THEN "done" ELSE MainSteps[StepIndex(s) + 1]

\* An error that is swallowed: main() carries on with the next statement.
OnError_continue(s) == NextStep(s)

\* No handler: the exception leaves main() at once.
OnError_unguarded(s) == "raised"

\* Where control goes when step s raises: start_run() is not guarded, every
\* other step is inside try ... except Exception.
OnError(s) == IF s = "start_run" THEN "raised" ELSE "except"

LoadStep(e) ==
    CASE e = "provider" -> "load_provider"
      [] e = "patient"  -> "load_patient"
      [] e = "claim"    -> "load_claim"

Ended(p)   == pc[p] \in {"done", "raised"}
Active(p)  == pc[p] \notin {"start_run", "done", "raised"}

\* ------------------------------------------------------------ the database
\* INSERT INTO dbo.ETL_Run ... DEFAULT VALUES: the column defaults.
DefaultRunRow ==
    [ Status |-> "RUNNING", EndedAt |-> "NULL",
      StgProviderCount |-> 0, StgPatientCount |-> 0, StgClaimCount |-> 0,
      ProviderCount |-> 0, PatientCount |-> 0, ClaimCount |-> 0,
      RejectTotal |-> 0 ]

\* finish_run whose UPDATE forgets the EndedAt column.
FinishRunRow_status_only(row, status) == [row EXCEPT !.Status = status]

\* finish_run's UPDATE applied to one row.
FinishRunRow(row, status) ==
    [row EXCEPT !.EndedAt = "SYSUTCDATETIME", !.Status = status]

\* update_run_counts' UPDATE applied to one row.
UpdateRunCountsRow(row, sc, fc, rj) ==
    [row EXCEPT !.StgProviderCount = sc["provider"],
                !.StgPatientCount  = sc["patient"],
                !.StgClaimCount    = sc["claim"],
                !.ProviderCount    = fc["provider"],
                !.PatientCount     = fc["patient"],
                !.ClaimCount       = fc["claim"],
                !.RejectTotal      = rj]

\* load_staging without its empty-frame guard.
Empty_unchecked(n) == FALSE

\* df is None or df.empty
Empty(n) == n <= 0

\* A bulk insert that silently drops the last row.
FrameRows_drop(rid, n) == {<<rid, i>> : i \in 1..(n - 1)}

\* The rows df.to_sql appends: one per data row, here tagged with the run
\* that loaded it and carrying the row's natural key.
FrameRows(rid, n) == {<<rid, i>> : i \in 1..n}

\* truncate_staging that forgets dbo.StgProvider.
TruncateAll_partial(stg) == [e \in Entities |-> IF e = "provider" THEN stg[e] ELSE {}]

\* truncate_staging that truncates nothing.
TruncateAll_noop(stg) == stg

\* truncate_staging: TRUNCATE TABLE on each of the three staging relations.
TruncateAll(stg) == [e \in Entities |-> {}]

Keys(rows) == {r[2] : r \in rows}

CountStar(rel) == Cardinality(rel)

RejectsOf(rid) == {r \in Reject_Claim : r[1] = rid}

\* ------------------------------------------------------------------- Init
Init ==
    /\ Stg = [e \in Entities |-> {}]
    /\ Final = [e \in Entities |-> {}]
    /\ Reject_Claim = {}
    /\ ETL_Run = << >>
    /\ blob \in [Entities -> 0..MaxRows]
    /\ pc = [p \in Procs |-> "start_run"]
    /\ run_id = [p \in Procs |-> NoRun]
    /\ frames = [p \in Procs |-> None]
    /\ stg_counts = [p \in Procs |-> None]
    /\ final_counts = [p \in Procs |-> None]
    /\ reject_total = [p \in Procs |-> -1]
    /\ merge_calls = [p \in Procs |-> << >>]
    /\ finish_calls = [p \in Procs |-> << >>]
    /\ staged = [p \in Procs |-> << >>]
    /\ overlap = FALSE
    /\ df = [columns |-> << >>, rows |-> << >>, expected_cols |-> << >>]
    /\ split_pc = "off"
    /\ split_sep = ""
    /\ split_out = [status |-> "none", columns |-> << >>, rows |-> << >>]

\* ---------------------------------------------------------------- actions
Goto(p, s) == pc' = [pc EXCEPT ![p] = s]

\* Leaving main(): the locals are gone.
DropLocals(p) ==
    /\ frames' = [frames EXCEPT ![p] = None]
    /\ stg_counts' = [stg_counts EXCEPT ![p] = None]
    /\ final_counts' = [final_counts EXCEPT ![p] = None]
    /\ reject_total' = [reject_total EXCEPT ![p] = -1]

\* run_id = start_run()
StartRun(p) ==
    /\ pc[p] = "start_run"
    /\ \A q \in Procs : q < p => pc[q] # "start_run"
    /\ \E ok \in BOOLEAN :
         IF ok
         THEN /\ ETL_Run' = Append(ETL_Run, DefaultRunRow)
              /\ run_id' = [run_id EXCEPT ![p] = Len(ETL_Run) + 1]
              /\ Goto(p, NextStep("start_run"))
              /\ overlap' = (overlap \/ \E q \in Procs \ {p} : Active(q))
         ELSE /\ Goto(p, OnError("start_run"))
              /\ UNCHANGED <<ETL_Run, run_id, overlap>>
    /\ UNCHANGED <<Stg, Final, Reject_Claim, blob, frames, stg_counts,
                   final_counts, reject_total, merge_calls, finish_calls,
                   staged, splitVars>>

\* 1) the three read_csv_from_blob calls, the column strip with
\* _split_single_column_csv for single-column frames, and 2) _coerce_types.
\* All of it is local to the process; any of the calls may raise (blob
\* missing, parse error, ValueError for missing columns).  Repair and
\* coercion keep the number of rows.
Extract(p) ==
    /\ pc[p] = "extract"
    /\ \E ok \in BOOLEAN :
         IF ok
         THEN /\ frames' = [frames EXCEPT ![p] = blob]
              /\ Goto(p, NextStep("extract"))
         ELSE /\ Goto(p, OnError("extract"))
              /\ UNCHANGED frames
    /\ UNCHANGED <<dbVars, run_id, stg_counts, final_counts, reject_total,
                   logVars, splitVars>>

\* 3) with engine.begin() as conn: truncate_staging(conn)
TruncateStaging(p) ==
    /\ pc[p] = "truncate_staging"
    /\ \E ok \in BOOLEAN :
         IF ok
         THEN /\ Stg' = TruncateAll(Stg)
              /\ staged' = [staged EXCEPT ![p] = Append(@, "truncate_staging")]
              /\ Goto(p, NextStep("truncate_staging"))
         ELSE /\ Goto(p, OnError("truncate_staging"))
              /\ UNCHANGED <<Stg, staged>>
    /\ UNCHANGED <<Final, Reject_Claim, ETL_Run, blob, run_id, frames,
                   stg_counts, final_counts, reject_total, merge_calls,
                   finish_calls, overlap, splitVars>>

\* load_staging(table_name, df)
LoadStaging(p, e) ==
    /\ pc[p] = LoadStep(e)
    /\ IF Empty(frames[p][e])
       THEN /\ Goto(p, OnError(LoadStep(e)))
            /\ UNCHANGED <<Stg, staged>>
       ELSE \E ok \in BOOLEAN :
              IF ok
              THEN /\ Stg' = [Stg EXCEPT ![e] = @ \cup FrameRows(run_id[p], frames[p][e])]
                   /\ staged' = [staged EXCEPT ![p] = Append(@, LoadStep(e))]
                   /\ Goto(p, NextStep(LoadStep(e)))
              ELSE /\ Goto(p, OnError(LoadStep(e)))
                   /\ UNCHANGED <<Stg, staged>>
    /\ UNCHANGED <<Final, Reject_Claim, ETL_Run, blob, run_id, frames,
                   stg_counts, final_counts, reject_total, merge_calls,
                   finish_calls, overlap, splitVars>>

\* stg_counts = {SELECT COUNT(*) FROM dbo.Stg...}
CountStaging(p) ==
    /\ pc[p] = "stg_counts"
    /\ \E ok \in BOOLEAN :
         IF ok
         THEN /\ stg_counts' = [stg_counts EXCEPT ![p] =
                                  [e \in Entities |-> CountStar(Stg[e])]]
              /\ Goto(p, NextStep("stg_counts"))
         ELSE /\ Goto(p, OnError("stg_counts"))
              /\ UNCHANGED stg_counts
    /\ UNCHANGED <<dbVars, run_id, frames, final_counts, reject_total,
                   logVars, splitVars>>

\* ---- the stored procedures (outside this code base: opaque MERGE by key)
\* sp_upsert_provider / sp_upsert_patient: upsert the staged keys.
UpsertKeys(final, rows) == final \cup Keys(rows)

\* The staged claim rows sp_upsert_claim rejects when it rejects keys 1..k.
RejectedRows(rows, k) == {r \in rows : r[2] <= k}

LogMerge(p, name, arg, ok) ==
    merge_calls' = [merge_calls EXCEPT ![p] = Append(@, <<name, arg, ok>>)]

\* 4) exec_proc("dbo.sp_upsert_provider") / exec_proc("dbo.sp_upsert_patient")
ExecProc(p, e, name) ==
    /\ \E ok \in BOOLEAN :
         /\ LogMerge(p, name, NoRun, ok)
         /\ IF ok
            THEN /\ Final' = [Final EXCEPT ![e] = UpsertKeys(@, Stg[e])]
                 /\ Goto(p, NextStep(pc[p]))
            ELSE /\ Goto(p, OnError(pc[p]))
                 /\ UNCHANGED Final
    /\ UNCHANGED <<Stg, Reject_Claim, ETL_Run, blob, run_id, frames,
                   stg_counts, final_counts, reject_total, finish_calls,
                   staged, overlap, splitVars>>

MergeProvider(p) ==
    /\ pc[p] = "merge_provider"
    /\ ExecProc(p, "provider", "dbo.sp_upsert_provider")

MergePatient(p) ==
    /\ pc[p] = "merge_patient"
    /\ ExecProc(p, "patient", "dbo.sp_upsert_patient")

\* The @RunID argument main() passes to dbo.sp_upsert_claim.
ClaimRunArg(p) == run_id[p]

\* 5) EXEC dbo.sp_upsert_claim @RunID=:rid
MergeClaim(p) ==
    /\ pc[p] = "merge_claim"
    /\ \E ok \in BOOLEAN :
         /\ LogMerge(p, "dbo.sp_upsert_claim", ClaimRunArg(p), ok)
         /\ IF ok
            THEN \E k \in 0..MaxReject :
                   /\ Final' = [Final EXCEPT !["claim"] =
                                  UpsertKeys(@, Stg["claim"] \ RejectedRows(Stg["claim"], k))]
                   /\ Reject_Claim' = Reject_Claim \cup
                        {<<ClaimRunArg(p), r[1], r[2]>> : r \in RejectedRows(Stg["claim"], k)}
                   /\ Goto(p, NextStep("merge_claim"))
            ELSE /\ Goto(p, OnError("merge_claim"))
                 /\ UNCHANGED <<Final, Reject_Claim>>
    /\ UNCHANGED <<Stg, ETL_Run, blob, run_id, frames, stg_counts,
                   final_counts, reject_total, finish_calls,
                   staged, overlap, splitVars>>

\* 6) final_counts and reject_total
FinalCounts(p) ==
    /\ pc[p] = "final_counts"
    /\ \E ok \in BOOLEAN :
         IF ok
         THEN /\ final_counts' = [final_counts EXCEPT ![p] =
                                    [e \in Entities |-> CountStar(Final[e])]]
              /\ reject_total' = [reject_total EXCEPT ![p] =
                                    CountStar(RejectsOf(run_id[p]))]
              /\ Goto(p, NextStep("final_counts"))
         ELSE /\ Goto(p, OnError("final_counts"))
              /\ UNCHANGED <<final_counts, reject_total>>
    /\ UNCHANGED <<dbVars, run_id, frames, stg_counts, logVars, splitVars>>

\* update_run_counts(run_id, stg_counts, final_counts, int(reject_total))
UpdateRunCounts(p) ==
    /\ pc[p] = "update_run_counts"
    /\ \E ok \in BOOLEAN :
         IF ok
         THEN /\ ETL_Run' = [ETL_Run EXCEPT ![run_id[p]] =
                    UpdateRunCountsRow(@, stg_counts[p], final_counts[p], reject_total[p])]
              /\ Goto(p, NextStep("update_run_counts"))
         ELSE /\ Goto(p, OnError("update_run_counts"))
              /\ UNCHANGED ETL_Run
    /\ UNCHANGED <<Stg, Final, Reject_Claim, blob, run_id, frames, stg_counts,
                   final_counts, reject_total, logVars, splitVars>>

\* finish_run(rid, status): the UPDATE commits, or the call raises and its
\* transaction is rolled back.
FinishRun(p, rid, status, ok) ==
    /\ finish_calls' = [finish_calls EXCEPT ![p] = Append(@, <<status, ok>>)]
    /\ IF ok
       THEN ETL_Run' = [ETL_Run EXCEPT ![rid] = FinishRunRow(@, status)]
       ELSE UNCHANGED ETL_Run

\* finish_run(run_id, "SUCCESS")
FinishSuccess(p) ==
    /\ pc[p] = "finish_run"
    /\ \E ok \in BOOLEAN :
         /\ FinishRun(p, run_id[p], "SUCCESS", ok)
         /\ Goto(p, IF ok THEN NextStep("finish_run") ELSE OnError("finish_run"))
    /\ UNCHANGED <<Stg, Final, Reject_Claim, blob, run_id, frames, stg_counts,
                   final_counts, reject_total, merge_calls,
                   staged, overlap, splitVars>>

\* print(f"Run {run_id} complete. ..."), still inside the try block; it
\* raises when stdout cannot be written.
PrintComplete(p) ==
    /\ pc[p] = "print"
    /\ \E ok \in BOOLEAN :
         IF ok
         THEN /\ Goto(p, NextStep("print"))
              /\ DropLocals(p)
         ELSE /\ Goto(p, OnError("print"))
              /\ UNCHANGED <<frames, stg_counts, final_counts, reject_total>>
    /\ UNCHANGED <<dbVars, run_id, logVars, splitVars>>

\* except Exception: finish_run(run_id, "FAILED"); raise
Except(p) ==
    /\ pc[p] = "except"
    /\ \E ok \in BOOLEAN : FinishRun(p, run_id[p], "FAILED", ok)
    /\ Goto(p, "raised")
    /\ DropLocals(p)
    /\ UNCHANGED <<Stg, Final, Reject_Claim, blob, run_id, merge_calls,
                   staged, overlap, splitVars>>

Next ==
    \E p \in Procs :
        \/ StartRun(p)
        \/ Extract(p)
        \/ TruncateStaging(p)
        \/ \E e \in Entities : LoadStaging(p, e)
        \/ CountStaging(p)
        \/ MergeProvider(p)
        \/ MergePatient(p)
        \/ MergeClaim(p)
        \/ FinalCounts(p)
        \/ UpdateRunCounts(p)
        \/ FinishSuccess(p)
        \/ PrintComplete(p)
        \/ Except(p)

\* main() takes no lock: any number of invocations may interleave.
Spec == Init /\ [][Next]_vars

\* The operational assumption "at most one run at a time": main() is only
\* started while no other invocation is running.
OneAtATime(p) == \A q \in Procs \ {p} : ~Active(q)

SerialNext ==
    \E p \in Procs :
        \/ OneAtATime(p) /\ StartRun(p)
        \/ Extract(p)
        \/ TruncateStaging(p)
        \/ \E e \in Entities : LoadStaging(p, e)
        \/ CountStaging(p)
        \/ MergeProvider(p)
        \/ MergePatient(p)
        \/ MergeClaim(p)
        \/ FinalCounts(p)
        \/ UpdateRunCounts(p)
        \/ FinishSuccess(p)
        \/ PrintComplete(p)
        \/ Except(p)

SerialSpec == Init /\ [][SerialNext]_vars

\* ---------------------------------------------- _split_single_column_csv
\* Strings are sequences of one-character strings.
Alphabet == {"N", "R", " ", ",", ";", "|"}
Delimiters == <<",", ";", "|">>

\* Column names and cell values handed to the function.
Strings(n) == UNION {[1..k -> Alphabet] : k \in 0..n}

\* The value pandas puts where a row has fewer parts than the widest row.
NoneCell == <<"None">>

\* ch in s
Contains(s, ch) == \E i \in DOMAIN s : s[i] = ch

FirstIndex(s, ch) == CHOOSE i \in DOMAIN s : s[i] = ch /\ \A j \in 1..(i - 1) : s[j] # ch

\* s.split(sep)
RECURSIVE StrSplit(_, _)
StrSplit(s, sep) ==
    IF ~Contains(s, sep)
    THEN <<s>>
    ELSE <<SubSeq(s, 1, FirstIndex(s, sep) - 1)>>
         \o StrSplit(SubSeq(s, FirstIndex(s, sep) + 1, Len(s)), sep)

\* s.strip()
RECURSIVE StrStrip(_)
StrStrip(s) ==
    IF s = << >> THEN s
    ELSE IF s[1] = " " THEN StrStrip(Tail(s))
    ELSE IF s[Len(s)] = " " THEN StrStrip(SubSeq(s, 1, Len(s) - 1))
    ELSE s

\* The delimiter chosen with the comma tested first.
DetectSep_comma_first(header) ==
    IF Contains(header, ",") THEN ","
    ELSE IF Contains(header, ";") THEN ";"
    ELSE "|"

\* sep = ","; if ";" in header: sep = ";"; elif "|" in header: sep = "|"
DetectSep(header) ==
    IF Contains(header, ";") THEN ";"
    ELSE IF Contains(header, "|") THEN "|"
    ELSE ","

\* len(df.columns) == 1 and any(ch in df.columns[0] for ch in [",", ";", "|"])
NeedsRepair(frame) ==
    /\ Len(frame.columns) = 1
    /\ \E i \in DOMAIN Delimiters : Contains(frame.columns[1], Delimiters[i])

SeqMax(ns) == CHOOSE n \in {ns[i] : i \in DOMAIN ns} : \A i \in DOMAIN ns : ns[i] <= n

\* df[col].str.split(sep, expand=True): every row split on sep and padded
\* to the width of the widest row.
SplitExpand(rows, sep) ==
    LET parts == [i \in DOMAIN rows |-> StrSplit(rows[i][1], sep)]
        width == SeqMax([i \in DOMAIN rows |-> Len(parts[i])])
    IN  [i \in DOMAIN rows |->
            [j \in 1..width |-> IF j <= Len(parts[i]) THEN parts[i][j] ELSE NoneCell]]

\* header_parts = [p.strip() for p in df.columns[0].split(sep)]
HeaderParts(header, sep) ==
    LET parts == StrSplit(header, sep)
    IN  [i \in DOMAIN parts |-> StrStrip(parts[i])]

\* The frame after the repair branch; "ValueError" when df.columns =
\* header_parts does not match the number of columns.
Repaired(frame) ==
    IF NeedsRepair(frame)
    THEN LET sep == DetectSep(frame.columns[1])
             cols == HeaderParts(frame.columns[1], sep)
             rows == SplitExpand(frame.rows, sep)
         IN  IF Len(rows[1]) = Len(cols)
             THEN [status |-> "ok", columns |-> cols, rows |-> rows]
             ELSE [status |-> "ValueError", columns |-> cols, rows |-> << >>]
    ELSE [status |-> "ok",
          columns |-> [i \in DOMAIN frame.columns |-> StrStrip(frame.columns[i])],
          rows |-> frame.rows]

\* df[expected_cols]: the columns named in expected_cols, in that order.
RECURSIVE Positions(_, _)
Positions(cols, names) ==
    IF names = << >> THEN << >>
    ELSE SelectSeq([i \in DOMAIN cols |-> i], LAMBDA i : cols[i] = names[1])
         \o Positions(cols, Tail(names))

\* _split_single_column_csv(df, expected_cols), new_names left at None as in
\* every call main() makes.
SplitSingleColumnCsv(frame, expected_cols) ==
    LET rep == Repaired(frame)
        missing == SelectSeq(expected_cols,
                             LAMBDA c : \A i \in DOMAIN rep.columns : rep.columns[i] # c)
        pos == Positions(rep.columns, expected_cols)
    IN  IF rep.status # "ok" \/ missing # << >>
        THEN [status |-> "ValueError", columns |-> << >>, rows |-> << >>]
        ELSE [status |-> "ok",
              columns |-> [k \in DOMAIN pos |-> rep.columns[pos[k]]],
              rows |-> [i \in DOMAIN rep.rows |->
                          [k \in DOMAIN pos |-> rep.rows[i][pos[k]]]]]

\* The cell values of the frames the function is called with.
CellValues ==
    { <<"N">>, <<"N", ",", "R">>, <<"N", ";", "R">>, <<"N", "|", "R">>,
      <<"N", ",", "R", ";", "N">>, <<" ", "N", ";", ",">> }

ExpectedColumns == { << <<"N">> >>, << <<"N">>, <<"R">> >> }

SplitInputs ==
    [ columns : {<<h>> : h \in Strings(MaxStr) \ {<< >>}},
      rows : UNION {[1..n -> {<<c>> : c \in CellValues}] : n \in 1..MaxSplitRows},
      expected_cols : ExpectedColumns ]

InitSplit ==
    /\ Stg = [e \in Entities |-> {}]
    /\ Final = [e \in Entities |-> {}]
    /\ Reject_Claim = {}
    /\ ETL_Run = << >>
    /\ blob = [e \in Entities |-> 0]
    /\ pc = [p \in Procs |-> "start_run"]
    /\ run_id = [p \in Procs |-> NoRun]
    /\ frames = [p \in Procs |-> None]
    /\ stg_counts = [p \in Procs |-> None]
    /\ final_counts = [p \in Procs |-> None]
    /\ reject_total = [p \in Procs |-> -1]
    /\ merge_calls = [p \in Procs |-> << >>]
    /\ finish_calls = [p \in Procs |-> << >>]
    /\ staged = [p \in Procs |-> << >>]
    /\ overlap = FALSE
    /\ df \in SplitInputs
    /\ split_pc = "call"
    /\ split_sep = ""
    /\ split_out = [status |-> "none", columns |-> << >>, rows |-> << >>]

\* One call of _split_single_column_csv(df, expected_cols).
SplitCall ==
    /\ split_pc = "call"
    /\ split_pc' = "return"
    /\ split_sep' = IF NeedsRepair(df) THEN DetectSep(df.columns[1]) ELSE ""
    /\ split_out' = SplitSingleColumnCsv(df, df.expected_cols)
    /\ UNCHANGED <<dbVars, procVars, logVars, df>>

SplitSpec == InitSplit /\ [][SplitCall]_vars

\* ================================================================= claims
RunOpened(p) == run_id[p] # NoRun
Row(p) == ETL_Run[run_id[p]]

MergeNames == <<"dbo.sp_upsert_provider", "dbo.sp_upsert_patient", "dbo.sp_upsert_claim">>

\* Merge `name` completed successfully in p's run before its i-th merge call.
CompletedBefore(p, name, i) ==
    \E j \in 1..(i - 1) : merge_calls[p][j][1] = name /\ merge_calls[p][j][3]

FailedMerge(p, i) == i \in DOMAIN merge_calls[p] /\ ~merge_calls[p][i][3]

Finalized(p) == Row(p).Status = "FAILED" /\ Row(p).EndedAt # "NULL"

\* The finish_run(run_id, "FAILED") call of the handler itself raised.
HandlerFailed(p) ==
    /\ finish_calls[p] # << >>
    /\ finish_calls[p][Len(finish_calls[p])] = <<"FAILED", FALSE>>

\* finish_run(run_id, "SUCCESS") committed in p's run.
WroteSuccess(p) ==
    finish_calls[p] # << >> /\ finish_calls[p][1] = <<"SUCCESS", TRUE>>

\* C1: in every run the merges are invoked in the order provider, patient,
\* claim: the patient merge only after the provider merge completed, the
\* claim merge only after both completed, each at most once, and the claim
\* merge with the run identifier start_run() returned to this run.
C1_MergeOrder ==
    \A p \in Procs :
        /\ Len(merge_calls[p]) <= 3
        /\ \A i \in DOMAIN merge_calls[p] :
             /\ merge_calls[p][i][1] = MergeNames[i]
             /\ i >= 2 => CompletedBefore(p, MergeNames[1], i)
             /\ i = 3 => /\ CompletedBefore(p, MergeNames[2], i)
                         /\ RunOpened(p)
                         /\ merge_calls[p][i][2] = run_id[p]

\* C1 witness: the second run of the model has invoked all three merges.
C1_Witness ==
    \E p \in Procs :
        /\ run_id[p] = 2
        /\ Len(merge_calls[p]) = 3
        /\ merge_calls[p][3] = <<"dbo.sp_upsert_claim", 2, TRUE>>

\* C2 as stated: a failed merge is the last merge call of its run (no later
\* merge, no retry), and the run ends with Status FAILED and EndedAt set.
C2_Original ==
    \A p \in Procs : \A i \in DOMAIN merge_calls[p] :
        FailedMerge(p, i) =>
            /\ i = Len(merge_calls[p])
            /\ pc[p] # "done"
            /\ Ended(p) => Finalized(p)

\* C2 amended: a failed merge is the last merge call of its run (no later
\* merge, no retry) and the run never completes normally; it ends with Status
\* FAILED and EndedAt set unless the handler's own finish_run(run_id,
\* "FAILED") raises, in which case the row stays RUNNING with EndedAt unset.
C2_FailedMergeAborts ==
    \A p \in Procs : \A i \in DOMAIN merge_calls[p] :
        FailedMerge(p, i) =>
            /\ i = Len(merge_calls[p])
            /\ pc[p] # "done"
            /\ Ended(p) =>
                 IF HandlerFailed(p)
                 THEN Row(p).Status = "RUNNING" /\ Row(p).EndedAt = "NULL"
                 ELSE Finalized(p)

\* C2 witness: the patient merge failed, the run was finalized as FAILED and
\* the claim merge was never invoked.
C2_Witness ==
    \E p \in Procs :
        /\ Len(merge_calls[p]) = 2
        /\ FailedMerge(p, 2)
        /\ pc[p] = "raised"
        /\ Finalized(p)

\* C3 as stated: whenever main() raised for a run that start_run() opened,
\* the run row has Status FAILED and EndedAt set.
C3_Original ==
    \A p \in Procs : (pc[p] = "raised" /\ RunOpened(p)) => Finalized(p)

\* C3 amended: whenever a step inside the try block raised, the handler
\* invokes finish_run(run_id, "FAILED") before main() re-raises; the run row
\* then has Status FAILED and EndedAt set, unless that finish_run call itself
\* raised, in which case the row keeps what it had (RUNNING with EndedAt
\* unset, or SUCCESS when finish_run(run_id, "SUCCESS") had committed).
C3_FailureFinalizes ==
    \A p \in Procs :
        (pc[p] = "raised" /\ RunOpened(p)) =>
            /\ finish_calls[p] # << >>
            /\ finish_calls[p][Len(finish_calls[p])][1] = "FAILED"
            /\ IF HandlerFailed(p)
               THEN IF WroteSuccess(p)
                    THEN Row(p).Status = "SUCCESS" /\ Row(p).EndedAt # "NULL"
                    ELSE Row(p).Status = "RUNNING" /\ Row(p).EndedAt = "NULL"
               ELSE Finalized(p)

\* C3 witness: a step of the try block raised before any finish_run call and
\* the handler finalized the run as FAILED.
C3_Witness ==
    \E p \in Procs :
        /\ pc[p] = "raised"
        /\ RunOpened(p)
        /\ finish_calls[p] = << <<"FAILED", TRUE>> >>
        /\ Finalized(p)

\* C4 as stated: finish_run is invoked at most once per run, and exactly once
\* by the time a run that start_run() opened has ended.
C4_Original ==
    \A p \in Procs :
        /\ Len(finish_calls[p]) <= 1
        /\ (Ended(p) /\ RunOpened(p)) => Len(finish_calls[p]) = 1

\* C4 amended: finish_run is invoked at least once by the time an opened run
\* has ended and at most twice; it is invoked twice exactly when
\* finish_run(run_id, "SUCCESS") was invoked and then it or the following
\* print raised, and the two calls are then SUCCESS followed by FAILED (never
\* twice with the same status).
C4_FinishCalls ==
    \A p \in Procs :
        /\ Len(finish_calls[p]) <= 2
        /\ (Ended(p) /\ RunOpened(p)) => Len(finish_calls[p]) >= 1
        /\ ~RunOpened(p) => finish_calls[p] = << >>
        /\ Len(finish_calls[p]) = 2 =>
              /\ finish_calls[p][1][1] = "SUCCESS"
              /\ finish_calls[p][2][1] = "FAILED"
              /\ pc[p] = "raised"
        /\ pc[p] = "done" => finish_calls[p] = << <<"SUCCESS", TRUE>> >>
        /\ (pc[p] = "raised" /\ RunOpened(p)) =>
              finish_calls[p][Len(finish_calls[p])][1] = "FAILED"

\* C4 witness: a run ended with finish_run invoked twice, SUCCESS then FAILED.
C4_Witness ==
    \E p \in Procs :
        /\ Ended(p)
        /\ Len(finish_calls[p]) = 2
        /\ finish_calls[p][1][1] = "SUCCESS"
        /\ finish_calls[p][2][1] = "FAILED"

\* C5: every status of a run row is RUNNING, SUCCESS or FAILED, the only
\* transitions are RUNNING -> SUCCESS and RUNNING -> FAILED, and a status that
\* is SUCCESS or FAILED is never changed afterwards.
C5_Original ==
    [][ \A rid \in DOMAIN ETL_Run :
          /\ ETL_Run[rid].Status \in {"RUNNING", "SUCCESS", "FAILED"}
          /\ ETL_Run[rid].Status \in {"SUCCESS", "FAILED"} =>
                ETL_Run'[rid].Status = ETL_Run[rid].Status ]_vars

\* The staging steps that have committed when load_staging is called for e.
StagedBefore(e) ==
    CASE e = "provider" -> <<"truncate_staging">>
      [] e = "patient"  -> <<"truncate_staging", "load_provider">>
      [] e = "claim"    -> <<"truncate_staging", "load_provider", "load_patient">>

\* p's run called load_staging for e with a frame of zero rows, and the call
\* raised (the frames of a run are the blobs it read).
EmptyLoadRaised(p, e) ==
    /\ staged[p] = StagedBefore(e)
    /\ blob[e] = 0
    /\ pc[p] \in {"except", "raised"}

RowsLoadedBy(p, e) == {r \in Stg[e] : r[1] = run_id[p]}

\* C6 as stated: load_staging on a frame of zero rows raises (the load never
\* commits) and appends nothing (a relation empty after the truncate is still
\* empty); the run is aborted as FAILED and no merge is executed in it.
C6_Original ==
    \A p \in Procs : \A e \in Entities :
        /\ (pc[p] = LoadStep(e) /\ blob[e] = 0) => Stg[e] = {}
        /\ blob[e] = 0 =>
             /\ \A i \in DOMAIN staged[p] : staged[p][i] # LoadStep(e)
             /\ merge_calls[p] = << >>
        /\ EmptyLoadRaised(p, e) =>
             /\ RowsLoadedBy(p, e) = {}
             /\ Stg[e] = {}
             /\ merge_calls[p] = << >>
             /\ Ended(p) => Finalized(p)

\* C6 amended: load_staging on a frame of zero rows raises (the load never
\* commits) and appends nothing (a relation empty after the truncate is still
\* empty); no merge is executed in that run, finish_run(run_id, "SUCCESS") is
\* never invoked, and the run ends with Status FAILED and EndedAt set unless
\* the handler's own finish_run(run_id, "FAILED") raises, which leaves the
\* row RUNNING with EndedAt unset.
C6_EmptyLoadRejected ==
    \A p \in Procs : \A e \in Entities :
        /\ (pc[p] = LoadStep(e) /\ blob[e] = 0) => Stg[e] = {}
        /\ blob[e] = 0 =>
             /\ \A i \in DOMAIN staged[p] : staged[p][i] # LoadStep(e)
             /\ merge_calls[p] = << >>
        /\ EmptyLoadRaised(p, e) =>
             /\ RowsLoadedBy(p, e) = {}
             /\ Stg[e] = {}
             /\ merge_calls[p] = << >>
             /\ Ended(p) =>
                  /\ pc[p] = "raised"
                  /\ finish_calls[p] \in {<< <<"FAILED", TRUE>> >>, << <<"FAILED", FALSE>> >>}
                  /\ IF HandlerFailed(p)
                     THEN Row(p).Status = "RUNNING" /\ Row(p).EndedAt = "NULL"
                     ELSE Finalized(p)

\* C6 witness: the provider load committed, the patient frame was empty, the
\* run ended FAILED without any merge.
C6_Witness ==
    \E p \in Procs :
        /\ EmptyLoadRaised(p, "patient")
        /\ Stg["provider"] # {}
        /\ pc[p] = "raised"
        /\ Finalized(p)
        /\ merge_calls[p] = << >>

\* C7: in a run without step failure on non-empty inputs of p, q and c rows,
\* each staging relation holds exactly the rows passed to its load when the
\* staging counts are taken, and the final run row has the three staging
\* counts p, q and c, Status SUCCESS and RejectTotal equal to the number of
\* Reject_Claim rows tagged with the run's id.
C7_SuccessCounts ==
    \A p \in Procs :
        /\ pc[p] = "stg_counts" =>
             \A e \in Entities :
                 /\ Stg[e] = FrameRows(run_id[p], frames[p][e])
                 /\ CountStar(Stg[e]) = blob[e]
        /\ pc[p] = "done" =>
             /\ \A e \in Entities : blob[e] >= 1
             /\ Row(p).StgProviderCount = blob["provider"]
             /\ Row(p).StgPatientCount = blob["patient"]
             /\ Row(p).StgClaimCount = blob["claim"]
             /\ Row(p).Status = "SUCCESS"
             /\ Row(p).EndedAt # "NULL"
             /\ Row(p).RejectTotal = CountStar(RejectsOf(run_id[p]))

\* C7 witness: the second run completed on non-empty inputs, on staging
\* relations the first run had loaded, with one claim rejected.
C7_Witness ==
    \E p, q \in Procs :
        /\ run_id[q] = 1
        /\ Len(staged[q]) = 4
        /\ pc[p] = "done"
        /\ run_id[p] = 2
        /\ Row(p).StgProviderCount = blob["provider"]
        /\ Row(p).StgClaimCount >= 1
        /\ Row(p).RejectTotal = 1

AfterLoads == {"stg_counts", "merge_provider", "merge_patient", "merge_claim"}

\* The staging rows p's count or merge step reads are not the rows p loaded.
SeesForeignStaging(p) ==
    /\ pc[p] \in AfterLoads
    /\ \E e \in Entities : Stg[e] # FrameRows(run_id[p], frames[p][e])

\* The staging counts p took differ from the numbers of rows p loaded.
MiscountedStaging(p) ==
    /\ pc[p] \in {"merge_provider", "merge_patient", "merge_claim",
                  "final_counts", "update_run_counts"}
    /\ \E e \in Entities : stg_counts[p][e] # frames[p][e]

\* C8: main() takes no lock, and as long as no run was started while another
\* was running, every count and merge step reads exactly the staging rows
\* its own run loaded and records their numbers; interleaved runs can break
\* this (the witness).
C8_SerialRunsIsolated ==
    ~overlap => \A p \in Procs : ~SeesForeignStaging(p) /\ ~MiscountedStaging(p)

\* C8 witness: two runs overlapped and one is about to merge claims while
\* StgClaim holds a row the other run loaded, having recorded a provider
\* count that is not the number of provider rows it loaded.
C8_Witness ==
    /\ overlap
    /\ \E p \in Procs :
         /\ pc[p] = "merge_claim"
         /\ \E r \in Stg["claim"] : r[1] # run_id[p]
         /\ stg_counts[p]["provider"] # frames[p]["provider"]

StagingRows == UNION {Stg[e] : e \in Entities}

\* Staging rows loaded by a run that started before p's.
EarlierRows(p) == {r \in StagingRows : r[1] < run_id[p]}

\* C9 as stated: when a run has ended, SUCCESS or FAILED, the staging
\* relations hold no row loaded by an earlier run.
C9_Original ==
    \A p \in Procs : (Ended(p) /\ RunOpened(p)) => EarlierRows(p) = {}

\* C9 amended: the staging relations are truncated after the blobs were
\* read, repaired and coerced, not at the very start of a run; with one run
\* at a time, from the moment a run's truncate committed (and so when such a
\* run ends) the staging relations hold no row loaded by an earlier run,
\* while a run that fails before its truncate leaves the earlier rows.
C9_TruncatedRunsOnly ==
    \A p \in Procs :
        /\ (RunOpened(p) /\ staged[p] # << >>) => EarlierRows(p) = {}
        /\ staged[p] # << >> => staged[p][1] = "truncate_staging"
        /\ pc[p] \in {"start_run", "extract", "truncate_staging"} => staged[p] = << >>

\* C9 witness: the first run loaded rows, the second run truncated and ended.
C9_Witness ==
    \E p, q \in Procs :
        /\ run_id[q] = 1
        /\ Len(staged[q]) >= 2
        /\ run_id[p] = 2
        /\ staged[p] # << >>
        /\ Ended(p)

\* The frame is one column whose header holds a delimiter character.
C10_Case == split_pc = "return" /\ NeedsRepair(df)

\* The header and every row are split on sep.
SplitOn(sep) ==
    /\ split_sep = sep
    /\ LET cols == HeaderParts(df.columns[1], sep)
           rows == SplitExpand(df.rows, sep)
       IN  (split_out.status = "ok") =>
                 /\ Len(rows[1]) = Len(cols)
                 /\ \A k \in DOMAIN split_out.columns :
                       \E j \in DOMAIN cols :
                           /\ cols[j] = split_out.columns[k]
                           /\ \A i \in DOMAIN rows : split_out.rows[i][k] = rows[i][j]

\* C10 as stated: the delimiter is chosen in the priority order comma,
\* semicolon, pipe.
C10_Original ==
    C10_Case =>
        LET h == df.columns[1]
        IN  /\ Contains(h, ",") => SplitOn(",")
            /\ (~Contains(h, ",") /\ Contains(h, ";")) => SplitOn(";")
            /\ (~Contains(h, ",") /\ ~Contains(h, ";")) => SplitOn("|")

\* C10 amended: the delimiter is chosen in the priority order semicolon,
\* then pipe, then comma: whenever the header contains a semicolon the header
\* and every row are split on semicolon, also when the header contains a
\* comma or a pipe as well; pipe is chosen only if there is no semicolon, and
\* comma only if there is neither semicolon nor pipe.
C10_SemicolonPipeComma ==
    C10_Case =>
        LET h == df.columns[1]
        IN  /\ Contains(h, ";") => SplitOn(";")
            /\ (~Contains(h, ";") /\ Contains(h, "|")) => SplitOn("|")
            /\ (~Contains(h, ";") /\ ~Contains(h, "|")) => SplitOn(",")

\* C10 witness: a header with a comma and a semicolon was split on the
\* semicolon and the call returned a frame.
C10_Witness ==
    /\ C10_Case
    /\ Contains(df.columns[1], ",")
    /\ Contains(df.columns[1], ";")
    /\ split_sep = ";"
    /\ split_out.status = "ok"

\* ------------------------------------------------------------------- C11
\* The staging steps of a run whose truncate and three loads all committed.
FullStaging == <<"truncate_staging", "load_provider", "load_patient", "load_claim">>

MergeSteps == {"merge_provider", "merge_patient", "merge_claim"}

\* The run of p raised before its staging was complete: during fetch, repair,
\* coercion, truncate or one of the loads.
FailedBeforeStaged(p) ==
    /\ RunOpened(p)
    /\ pc[p] \in {"except", "raised"}
    /\ staged[p] # FullStaging

\* C11: a merge procedure is executed in a run only after that run's staging
\* truncate and its three staging loads have committed, in that order; a run
\* that fails during fetch, repair, coercion, truncate or load has executed
\* no merge and has tagged no reject, and Provider, Patient, Claim and
\* Reject_Claim are changed only by the merge step of a run whose staging is
\* complete, so such a failing run leaves them unchanged.
C11_MergeAfterStaging ==
    [][ /\ \A p \in Procs :
             /\ merge_calls'[p] # << >> => staged'[p] = FullStaging
             /\ pc'[p] \in MergeSteps => staged'[p] = FullStaging
             /\ FailedBeforeStaged(p)' =>
                    /\ merge_calls'[p] = << >>
                    /\ RejectsOf(run_id[p])' = {}
        /\ (Final' # Final \/ Reject_Claim' # Reject_Claim) =>
             \E p \in Procs :
                 /\ pc[p] \in MergeSteps
                 /\ staged[p] = FullStaging
                 /\ merge_calls'[p] # merge_calls[p] ]_vars

\* C11 witness: after a first run merged its rows, a second run failed in
\* load_staging for the patient frame: it executed no merge, the provider
\* staging relation holds its rows and the other two are left truncated.
C11_Witness ==
    \E p, q \in Procs :
        /\ Len(merge_calls[q]) = 3
        /\ merge_calls[q][3][3]
        /\ Final["provider"] # {}
        /\ run_id[p] = 2
        /\ pc[p] = "raised"
        /\ staged[p] = <<"truncate_staging", "load_provider">>
        /\ merge_calls[p] = << >>
        /\ Stg["provider"] = FrameRows(run_id[p], blob["provider"])
        /\ Stg["provider"] # {}
        /\ Stg["patient"] = {}
        /\ Stg["claim"] = {}

====
